---- MODULE Spec2Model ----
(***************************************************************************)
(* Model of the Keras layer DecodeDetections                               *)
(* (src/keras_layers/keras_layer_DecodeDetections.py): construction, the   *)
(* box decoding, the per-class confidence filter and non-maximum           *)
(* suppression, the per-image top-k selection and the batch loop.          *)
(*                                                                         *)
(* Numbers.  Floats are modelled by integers: a confidence is a number of  *)
(* confidence units, a coordinate a number of length units.  The IoU       *)
(* threshold is a fraction <<num, den>> and "iou > threshold" is decided   *)
(* by cross multiplication, so no rounding takes place.  exp() is modelled *)
(* on the exponent 0 only (every size offset of the inputs is 0) and the   *)
(* anchor sizes are even, so that 0.5 * w is exact.                        *)
(*                                                                         *)
(* The two tf.map_fn loops run their iterations in parallel                *)
(* (parallel_iterations=128): each iteration is one action, and each       *)
(* writes the slot of its own index in the loop's result array.            *)
(***************************************************************************)
EXTENDS Integers, Sequences, FiniteSets, TLC

VARIABLES
    pc,                       \* "new", "failed", "built", "running", "done"
    layer,                    \* the arguments given to __init__ (self.* once built)
    ctor_error,               \* what __init__ raised: "none", "TypeError", "ValueError"
    y_pred,                   \* the input batch of call()
    decoded,                  \* y_pred after step 1 of call() (line 119)
    filtered_single_classes,  \* per image, per class index: result slot of loop_over_classes
    top_k_boxes,              \* per image: result slot of loop_over_batch
    output_tensor             \* what call() returns

vars == <<pc, layer, ctor_error, y_pred, decoded, filtered_single_classes,
          top_k_boxes, output_tensor>>

(***************************************************************************)
(* Bounds of the model                                                     *)
(***************************************************************************)
\* n_boxes of a batch of one image ranges over 0..MaxBoxes
MaxBoxes == 3
\* top_k ranges over 1..MaxTopK
MaxTopK == 3
\* nms_max_output_size ranges over 1..MaxNmsSize
MaxNmsSize == 2

\* <<batch_size, n_boxes>> of the input batches: one image of up to MaxBoxes anchor
\* boxes, or two images of at most one anchor box each
BatchShapes == {<<1, n>> : n \in 0..MaxBoxes} \cup {<<2, 0>>, <<2, 1>>}
ConfidenceThresholds == {-1, 0, 2}
\* iou_threshold as a fraction <<numerator, denominator>>: 1/3
IouThresholds == {<<1, 3>>}
Backends == {"tensorflow", "theano"}
CoordFormats == {"centroids", "corners"}

\* Python's None, and an optional number n as <<n>>
None == <<>>
ImgHeights == {None, <<2>>}
ImgWidths == {None, <<3>>}

\* The class confidences of one anchor box: <<background, class 1, class 2>>
ConfRows == {<<5, 3, 1>>, <<5, 1, 2>>, <<0, 2, 0>>}

\* The 12 decode fields of the anchor box at position j of an image:
\* offsets (cx, cy, w, h), anchor (cx, cy, w, h), variances (cx, cy, w, h).
\* Neighbouring anchors overlap with IoU 3/5 (above iou_threshold), anchors two
\* apart with IoU 1/3 (equal to it), anchors three apart with IoU 1/7 (below it).
AnchorFields(j) == <<0, 0, 0, 0,  j + 1, 2, 4, 4,  1, 1, 1, 1>>

EncodedRow(j, conf) == conf \o AnchorFields(j)

\* All input batches: batch_size images of n_boxes rows each
Batches ==
    UNION { { [i \in 1..b |-> [j \in 1..n |-> EncodedRow(j, confs[i][j])]] :
                confs \in [1..b -> [1..n -> ConfRows]] } :
            <<b, n>> \in BatchShapes }

Unwritten == <<>>
ZeroRow == <<0, 0, 0, 0, 0, 0>>

(***************************************************************************)
(* __init__                                                                *)
(***************************************************************************)
\* tf.constant(value): raises ValueError("None values not supported.") on None
TfConstantRaises(value) == value = None

\* The error __init__ raises, "none" when construction succeeds
InitError(backend, coords, normalize_coords, img_height, img_width) ==
    IF backend # "tensorflow" THEN "TypeError"
    ELSE IF normalize_coords /\ (img_height = None \/ img_width = None) THEN "ValueError"
    ELSE IF coords # "centroids" THEN "ValueError"
    ELSE IF TfConstantRaises(img_height) \/ TfConstantRaises(img_width) THEN "ValueError"
    ELSE "none"

Construct(backend, coords, normalize_coords, img_height, img_width, confidence_thresh, iou_threshold, k, nms_max_output_size) ==
    /\ pc = "new"
    /\ LET err == InitError(backend, coords, normalize_coords, img_height, img_width)
       IN  /\ ctor_error' = err
           /\ pc' = IF err = "none" THEN "built" ELSE "failed"
    /\ layer' = [backend |-> backend,
                 coords |-> coords,
                 normalize_coords |-> normalize_coords,
                 img_height |-> img_height,
                 img_width |-> img_width,
                 confidence_thresh |-> confidence_thresh,
                 iou_threshold |-> iou_threshold,
                 top_k |-> k,
                 nms_max_output_size |-> nms_max_output_size]
    /\ UNCHANGED <<y_pred, decoded, filtered_single_classes, top_k_boxes, output_tensor>>

(***************************************************************************)
(* call(), step 1: decoding                                                *)
(***************************************************************************)
\* exp(x), on the exponents the inputs produce
Exp(x) == CASE x = 0 -> 1

\* 0.5 * x, exact on the even sizes the inputs produce
Half(x) == x \div 2

\* row[..., k] for a negative Python index k
At(row, k) == row[Len(row) + 1 + k]

\* One row of lines 95-119: the class confidences followed by xmin, ymin, xmax, ymax
DecodeRow(row, self) ==
    LET cx == At(row, -12) * At(row, -4) * At(row, -6) + At(row, -8)
        cy == At(row, -11) * At(row, -3) * At(row, -5) + At(row, -7)
        w  == Exp(At(row, -10) * At(row, -2)) * At(row, -6)
        h  == Exp(At(row, -9) * At(row, -1)) * At(row, -5)
        xmin == cx - Half(w)
        ymin == cy - Half(h)
        xmax == cx + Half(w)
        ymax == cy + Half(h)
        sx == IF self.normalize_coords THEN self.img_width[1] ELSE 1
        sy == IF self.normalize_coords THEN self.img_height[1] ELSE 1
    IN  SubSeq(row, 1, Len(row) - 12) \o <<xmin * sx, ymin * sy, xmax * sx, ymax * sy>>

DecodeBatch(batch, self) ==
    [i \in 1..Len(batch) |-> [j \in 1..Len(batch[i]) |-> DecodeRow(batch[i][j], self)]]

\* The static last axis of the input batch: n_classes + 12
LastAxis == Len(EncodedRow(1, CHOOSE c \in ConfRows : TRUE))

\* n_classes = y_pred.shape[2] - 4, of the decoded batch (last axis: n_classes + 4)
NClasses == (LastAxis - 12 + 4) - 4

\* A changed class range: tf.range(0, n_classes), the background included
ClassRangeFromZero(n_classes) == [k \in 1..n_classes |-> k - 1]

\* tf.range(1, n_classes), the elems of loop_over_classes (line 190)
ClassRange(n_classes) == [k \in 1..(n_classes - 1) |-> k]

(***************************************************************************)
(* call(), step 2: tf helpers                                              *)
(***************************************************************************)
\* The indices of values in descending order of value, equal values in index order
ArgSortDesc(values) ==
    LET n == Len(values)
        Rank(i) == 1 + Cardinality({j \in 1..n : \/ values[j] > values[i]
                                                 \/ values[j] = values[i] /\ j < i})
    IN  [k \in 1..n |-> CHOOSE i \in 1..n : Rank(i) = k]

\* tf.gather(params, indices, axis=0)
TfGather(params, indices) == [k \in 1..Len(indices) |-> params[indices[k]]]

\* tf.nn.top_k(values, k, sorted=True).indices: the k largest, descending,
\* the lower index first among equal values
TfTopKIndices(values, k) == SubSeq(ArgSortDesc(values), 1, k)

\* tf.pad(tensor, [[0, count], [0, 0]], constant_values=0.0)
TfPadRows(tensor, count) == tensor \o [k \in 1..count |-> ZeroRow]

\* The rows of tensor from row k on whose mask is set, in order
RECURSIVE MaskFrom(_, _, _)
MaskFrom(tensor, mask, k) ==
    IF k > Len(tensor) THEN <<>>
    ELSE (IF mask[k] THEN <<tensor[k]>> ELSE <<>>) \o MaskFrom(tensor, mask, k + 1)

\* tf.boolean_mask(tensor, mask)
TfBooleanMask(tensor, mask) == MaskFrom(tensor, mask, 1)

\* Column col (0-based) of a list of rows
Column(rows, col) == [k \in 1..Len(rows) |-> rows[k][col + 1]]

\* Area of a box <<ymin, xmin, ymax, xmax>>
BoxArea(b) == (b[3] - b[1]) * (b[4] - b[2])

Min(a, b) == IF a < b THEN a ELSE b
Max(a, b) == IF a > b THEN a ELSE b

\* Area of the intersection of two boxes <<ymin, xmin, ymax, xmax>>
IntersectionArea(a, b) ==
    Max(Min(a[3], b[3]) - Max(a[1], b[1]), 0) * Max(Min(a[4], b[4]) - Max(a[2], b[2]), 0)

\* A changed overlap test: iou(a, b) >= threshold
IouGreaterOrEqual(a, b, threshold) ==
    /\ BoxArea(a) > 0
    /\ BoxArea(b) > 0
    /\ LET inter == IntersectionArea(a, b)
       IN  inter * threshold[2] >= threshold[1] * (BoxArea(a) + BoxArea(b) - inter)

\* iou(a, b) > threshold, threshold = <<num, den>>; a box without area overlaps nothing
IouGreater(a, b, threshold) ==
    /\ BoxArea(a) > 0
    /\ BoxArea(b) > 0
    /\ LET inter == IntersectionArea(a, b)
       IN  inter * threshold[2] > threshold[1] * (BoxArea(a) + BoxArea(b) - inter)

\* The greedy loop of tf.image.non_max_suppression: visit the boxes in order,
\* select a box unless it overlaps a selected one, stop at max_output_size
RECURSIVE NmsLoop(_, _, _, _, _, _)
NmsLoop(boxes, order, k, selected, max_output_size, iou_threshold) ==
    IF k > Len(order) \/ Len(selected) >= max_output_size THEN selected
    ELSE LET i == order[k]
             keep == \A s \in 1..Len(selected) :
                         ~IouGreater(boxes[i], boxes[selected[s]], iou_threshold)
         IN  NmsLoop(boxes, order, k + 1,
                     IF keep THEN Append(selected, i) ELSE selected,
                     max_output_size, iou_threshold)

\* A changed suppression: the greedy loop stops before the lowest score
TfNonMaxSuppressionDropLast(boxes, scores, max_output_size, iou_threshold) ==
    NmsLoop(boxes, SubSeq(ArgSortDesc(scores), 1, Len(scores) - 1), 1, <<>>,
            max_output_size, iou_threshold)

\* tf.image.non_max_suppression(boxes, scores, max_output_size, iou_threshold):
\* the selected indices, in descending order of score
TfNonMaxSuppression(boxes, scores, max_output_size, iou_threshold) ==
    NmsLoop(boxes, ArgSortDesc(scores), 1, <<>>, max_output_size, iou_threshold)

(***************************************************************************)
(* call(), step 2: filter_single_class                                     *)
(***************************************************************************)
\* Lines 142-146: <<class_id, confidence, xmin, ymin, xmax, ymax>> of every box
single_class_rows(batch_item, index) ==
    [j \in 1..Len(batch_item) |->
        <<index, batch_item[j][index + 1],
          At(batch_item[j], -4), At(batch_item[j], -3),
          At(batch_item[j], -2), At(batch_item[j], -1)>>]

\* A changed mask: a confidence equal to the threshold passes
threshold_met_inclusive(single_class, confidence_thresh) ==
    [j \in 1..Len(single_class) |-> single_class[j][2] >= confidence_thresh]

\* Line 149: the mask of the rows whose confidence is above the threshold
threshold_met(single_class, confidence_thresh) ==
    [j \in 1..Len(single_class) |-> single_class[j][2] > confidence_thresh]

\* Lines 149-151: the rows of a class that pass the threshold
confident_rows(single_class, confidence_thresh) ==
    TfBooleanMask(single_class, threshold_met(single_class, confidence_thresh))

\* Lines 154-172
perform_nms(single_class, self) ==
    LET scores == Column(single_class, 1)
        boxes == [k \in 1..Len(single_class) |->
                    <<At(single_class[k], -3), At(single_class[k], -4),
                      At(single_class[k], -1), At(single_class[k], -2)>>]
        maxima_indices == TfNonMaxSuppression(boxes, scores, self.nms_max_output_size,
                                              self.iou_threshold)
    IN  TfGather(single_class, maxima_indices)

\* A changed no_confident_predictions: the constant is 1.0 instead of 0.0
no_confident_predictions_ones == << <<1, 1, 1, 1, 1, 1>> >>

\* Lines 175-176
no_confident_predictions == <<ZeroRow>>

\* Line 178
single_class_nms(single_class, self) ==
    IF Len(single_class) = 0 THEN no_confident_predictions
    ELSE perform_nms(single_class, self)

\* Lines 137-186
filter_single_class(batch_item, index, self) ==
    LET single_class == confident_rows(single_class_rows(batch_item, index),
                                       self.confidence_thresh)
        nms == single_class_nms(single_class, self)
    IN  TfPadRows(nms, self.nms_max_output_size - Len(nms))

(***************************************************************************)
(* call(), step 2: filter_predictions                                      *)
(***************************************************************************)
\* The rows of the result slots from slot k on, in slot order
RECURSIVE ConcatFrom(_, _)
ConcatFrom(slots, k) ==
    IF k > Len(slots) THEN <<>> ELSE slots[k] \o ConcatFrom(slots, k + 1)

\* Line 199: the per-class results, in the order of elems, as one list of rows
Reshape(slots) == ConcatFrom(slots, 1)

\* A changed top_k: the first top_k rows, unsorted
top_k_unsorted(filtered_predictions, self) == SubSeq(filtered_predictions, 1, self.top_k)

\* Lines 203-206
top_k(filtered_predictions, self) ==
    TfGather(filtered_predictions,
             TfTopKIndices(Column(filtered_predictions, 1), self.top_k))

\* A changed pad_and_top_k: the padding is left out
pad_and_top_k_unpadded(filtered_predictions, self) ==
    TfGather(filtered_predictions,
             TfTopKIndices(Column(filtered_predictions, 1),
                           Min(self.top_k, Len(filtered_predictions))))

\* A changed pad_and_top_k: padded, then the first top_k rows, unsorted
pad_and_top_k_unsorted(filtered_predictions, self) ==
    SubSeq(TfPadRows(filtered_predictions, self.top_k - Len(filtered_predictions)),
           1, self.top_k)

\* Lines 207-214
pad_and_top_k(filtered_predictions, self) ==
    LET padded_predictions == TfPadRows(filtered_predictions,
                                        self.top_k - Len(filtered_predictions))
    IN  TfGather(padded_predictions,
                 TfTopKIndices(Column(padded_predictions, 1), self.top_k))

\* Line 216
top_k_cond(filtered_predictions, self) ==
    IF Len(filtered_predictions) >= self.top_k
    THEN top_k(filtered_predictions, self)
    ELSE pad_and_top_k(filtered_predictions, self)

\* Lines 232-234
compute_output_shape(input_shape, self) == <<input_shape[1], self.top_k, 6>>

\* A changed join: one written slot is enough
ClassesJoinedAny(slots) == \E k \in 1..Len(slots) : slots[k] # Unwritten

\* The join of loop_over_classes: every class iteration has written its slot
ClassesJoined(slots) == \A k \in 1..Len(slots) : slots[k] # Unwritten

\* The join of loop_over_batch: every image iteration has written its slot
BatchJoined(slots) == \A i \in 1..Len(slots) : slots[i] # Unwritten

(***************************************************************************)
(* call(): the actions                                                     *)
(***************************************************************************)
\* Lines 95-128: decode the batch, then start the two loops
Call(batch) ==
    /\ pc = "built"
    /\ pc' = "running"
    /\ y_pred' = batch
    /\ decoded' = DecodeBatch(batch, layer)
    /\ filtered_single_classes' =
           [i \in 1..Len(batch) |-> [k \in 1..Len(ClassRange(NClasses)) |-> Unwritten]]
    /\ top_k_boxes' = [i \in 1..Len(batch) |-> Unwritten]
    /\ UNCHANGED <<layer, ctor_error, output_tensor>>

\* Iteration k of loop_over_classes (lines 189-196) for image i
FilterSingleClass(i, k) ==
    /\ pc = "running"
    /\ filtered_single_classes[i][k] = Unwritten
    /\ filtered_single_classes' =
           [filtered_single_classes EXCEPT
               ![i][k] = filter_single_class(decoded[i], ClassRange(NClasses)[k], layer)]
    /\ UNCHANGED <<pc, layer, ctor_error, y_pred, decoded, top_k_boxes, output_tensor>>

\* The rest of one iteration of loop_over_batch (lines 199-218) for image i
FilterPredictions(i) ==
    /\ pc = "running"
    /\ top_k_boxes[i] = Unwritten
    /\ ClassesJoined(filtered_single_classes[i])
    /\ top_k_boxes' =
           [top_k_boxes EXCEPT
               ![i] = top_k_cond(Reshape(filtered_single_classes[i]), layer)]
    /\ UNCHANGED <<pc, layer, ctor_error, y_pred, decoded, filtered_single_classes,
                   output_tensor>>

\* Lines 221-230: the stacked per-image results are returned
Return ==
    /\ pc = "running"
    /\ BatchJoined(top_k_boxes)
    /\ output_tensor' = top_k_boxes
    /\ pc' = "done"
    /\ UNCHANGED <<layer, ctor_error, y_pred, decoded, filtered_single_classes, top_k_boxes>>

(***************************************************************************)
(* Specification                                                           *)
(***************************************************************************)
NoLayer == [backend |-> "", coords |-> "", normalize_coords |-> FALSE,
            img_height |-> None, img_width |-> None, confidence_thresh |-> 0,
            iou_threshold |-> <<0, 1>>, top_k |-> 0, nms_max_output_size |-> 0]

Init ==
    /\ pc = "new"
    /\ layer = NoLayer
    /\ ctor_error = "none"
    /\ y_pred = <<>>
    /\ decoded = <<>>
    /\ filtered_single_classes = <<>>
    /\ top_k_boxes = <<>>
    /\ output_tensor = <<>>

DoConstruct ==
    /\ pc = "new"
    /\ \E backend \in Backends, coords \in CoordFormats, normalize_coords \in BOOLEAN,
          img_height \in ImgHeights, img_width \in ImgWidths,
          confidence_thresh \in ConfidenceThresholds, iou_threshold \in IouThresholds,
          k \in 1..MaxTopK, nms_max_output_size \in 1..MaxNmsSize :
           Construct(backend, coords, normalize_coords, img_height, img_width,
                     confidence_thresh, iou_threshold, k, nms_max_output_size)

DoCall == pc = "built" /\ \E batch \in Batches : Call(batch)

DoFilterSingleClass ==
    pc = "running" /\ \E i \in 1..Len(decoded) : \E k \in 1..Len(ClassRange(NClasses)) :
        FilterSingleClass(i, k)

DoFilterPredictions == pc = "running" /\ \E i \in 1..Len(decoded) : FilterPredictions(i)

Next ==
    \/ DoConstruct
    \/ DoCall
    \/ DoFilterSingleClass
    \/ DoFilterPredictions
    \/ Return

Spec == Init /\ [][Next]_vars

(***************************************************************************)
(* Properties                                                              *)
(***************************************************************************)
Range(s) == {s[k] : k \in 1..Len(s)}

\* The images whose iteration of loop_over_batch has written its result
WrittenImages == {i \in 1..Len(top_k_boxes) : top_k_boxes[i] # Unwritten}

\* The class iterations of image i that have written their result
WrittenClasses(i) ==
    {k \in 1..Len(filtered_single_classes[i]) : filtered_single_classes[i][k] # Unwritten}

\* The candidates of class index of image i: the rows above the threshold
Candidates(i, index) ==
    confident_rows(single_class_rows(decoded[i], index), layer.confidence_thresh)

\* The candidates of class index of image i that survive non-maximum suppression
Survivors(i, index) ==
    IF Len(Candidates(i, index)) = 0 THEN <<>> ELSE perform_nms(Candidates(i, index), layer)

RECURSIVE SumOver(_, _)
SumOver(f, S) ==
    IF S = {} THEN 0 ELSE LET x == CHOOSE y \in S : TRUE IN f[x] + SumOver(f, S \ {x})

\* The number of rows that are not the zero sentinel
NonSentinelCount(rows) == Cardinality({k \in 1..Len(rows) : rows[k] # ZeroRow})

\* Every confidence of the classes 1..n_classes-1 of image i is at or below the threshold
NoConfidentClass(i) ==
    \A j \in 1..Len(decoded[i]) : \A index \in 1..(NClasses - 1) :
        decoded[i][j][index + 1] <= layer.confidence_thresh

\* C1: call returns exactly top_k rows of 6 fields for every image of the batch,
\* the shape compute_output_shape declares, whatever the number of candidates.
C1_OutputShape ==
    /\ \A i \in WrittenImages :
          /\ Len(top_k_boxes[i]) = layer.top_k
          /\ \A k \in 1..Len(top_k_boxes[i]) : Len(top_k_boxes[i][k]) = 6
    /\ pc = "done" =>
          LET shape == compute_output_shape(<<Len(y_pred), Len(y_pred[1]), LastAxis>>, layer)
          IN  /\ shape = <<Len(y_pred), layer.top_k, 6>>
              /\ Len(output_tensor) = shape[1]
              /\ \A i \in 1..Len(output_tensor) :
                    /\ Len(output_tensor[i]) = shape[2]
                    /\ \A k \in 1..Len(output_tensor[i]) : Len(output_tensor[i][k]) = shape[3]

\* C1 witness: a finished call with fewer padded class rows than top_k, one image
\* without any candidate and one image with a detection.
C1_Witness ==
    /\ pc = "done"
    /\ (NClasses - 1) * layer.nms_max_output_size < layer.top_k
    /\ \E i \in 1..Len(y_pred) : Len(y_pred[i]) > 0 /\ NoConfidentClass(i)
    /\ \E i \in 1..Len(y_pred) : NonSentinelCount(output_tensor[i]) > 0

\* C2: under the tensorflow backend construction fails exactly when coords is not
\* 'centroids' or normalize_coords is set without both image dimensions.
C2_ConstructionErrors ==
    (pc # "new" /\ layer.backend = "tensorflow") =>
        ((ctor_error # "none") <=>
            \/ layer.coords # "centroids"
            \/ layer.normalize_coords /\ (layer.img_height = None \/ layer.img_width = None))

\* C4: the non-sentinel output rows of an image are never more than its candidates
\* that passed the threshold and survived NMS, summed over the classes 1..n_classes-1;
\* an image without any confidence above the threshold gets zero sentinel rows only.
C4_SentinelCount ==
    \A i \in WrittenImages :
        /\ NonSentinelCount(top_k_boxes[i]) <=
               SumOver([index \in 1..(NClasses - 1) |-> Len(Survivors(i, index))],
                       1..(NClasses - 1))
        /\ NoConfidentClass(i) => \A k \in 1..Len(top_k_boxes[i]) : top_k_boxes[i][k] = ZeroRow

\* C4 witness: an image with anchor boxes, none of them with a confidence (the
\* background's included) above the threshold, has its top_k zero rows.
C4_Witness ==
    \E i \in WrittenImages :
        /\ Len(decoded[i]) > 0
        /\ \A j \in 1..Len(decoded[i]) : \A col \in 1..NClasses :
              decoded[i][j][col] <= layer.confidence_thresh
        /\ \A k \in 1..Len(top_k_boxes[i]) : top_k_boxes[i][k] = ZeroRow

\* C5: every non-sentinel output row has a class_id in 1..n_classes-1 and holds the
\* confidence of that class and the decoded box of one anchor box of the image; no
\* class iteration runs on the background column.
C5_BackgroundSkipped ==
    /\ \A i \in 1..Len(filtered_single_classes) :
          Len(filtered_single_classes[i]) = NClasses - 1
    /\ \A i \in WrittenImages : \A k \in 1..Len(top_k_boxes[i]) :
          LET row == top_k_boxes[i][k]
          IN  row # ZeroRow =>
                /\ row[1] \in 1..(NClasses - 1)
                /\ \E j \in 1..Len(decoded[i]) :
                      /\ row[2] = decoded[i][j][row[1] + 1]
                      /\ SubSeq(row, 3, 6) = SubSeq(decoded[i][j], NClasses + 1, NClasses + 4)

\* C5 witness: an output with a row of class 1 and a row of class 2, from an image
\* whose background confidence is the highest of all.
C5_Witness ==
    \E i \in WrittenImages :
        /\ \E k \in 1..Len(top_k_boxes[i]) : top_k_boxes[i][k][1] = 1
        /\ \E k \in 1..Len(top_k_boxes[i]) : top_k_boxes[i][k][1] = 2
        /\ \A j \in 1..Len(decoded[i]) : \A index \in 1..(NClasses - 1) :
              decoded[i][j][1] > decoded[i][j][index + 1]

\* The overlap of two rows <<class_id, confidence, xmin, ymin, xmax, ymax>>
RowArea(r) == (r[5] - r[3]) * (r[6] - r[4])
RowIntersection(a, b) ==
    Max(Min(a[5], b[5]) - Max(a[3], b[3]), 0) * Max(Min(a[6], b[6]) - Max(a[4], b[4]), 0)
IouAbove(a, b, threshold) ==
    LET inter == RowIntersection(a, b)
    IN  inter * threshold[2] > threshold[1] * (RowArea(a) + RowArea(b) - inter)

\* What the claim of C3 says of the candidates a and b, a the more confident one,
\* and the rows res of the Suppressor's result
PairRule(a, b, res) ==
    /\ IouAbove(a, b, layer.iou_threshold) => a \in res /\ b \notin res
    /\ (~IouAbove(a, b, layer.iou_threshold) /\ layer.nms_max_output_size >= 2) =>
          a \in res /\ b \in res

\* C3 as claimed: of any two candidates of a class with different confidences, only
\* the more confident one is in the Suppressor's result when their IoU is above
\* iou_threshold, and both are when it is not.  The claim is read in its most
\* favourable case: nms_max_output_size >= 2 throughout, a confidence threshold
\* that is not negative, and no two candidates of the class with the same confidence.
C3_AnyPair ==
    (layer.nms_max_output_size >= 2 /\ layer.confidence_thresh >= 0) =>
        \A i \in 1..Len(filtered_single_classes) : \A k \in WrittenClasses(i) :
            LET cand == Range(Candidates(i, ClassRange(NClasses)[k]))
                res == Range(filtered_single_classes[i][k])
            IN  (\A a \in cand : \A b \in cand : a # b => a[2] # b[2]) =>
                    \A a \in cand : \A b \in cand : a[2] > b[2] => PairRule(a, b, res)

\* C3 amended: the rule holds of two candidates that are the only candidates of
\* their class; among more candidates, two candidates whose IoU is above
\* iou_threshold are never both in the Suppressor's result.
C3_OnlyPair ==
    \A i \in 1..Len(filtered_single_classes) : \A k \in WrittenClasses(i) :
        LET cand == Range(Candidates(i, ClassRange(NClasses)[k]))
            res == Range(filtered_single_classes[i][k])
        IN  \A a \in cand : \A b \in cand : a[2] > b[2] =>
                /\ IouAbove(a, b, layer.iou_threshold) => ~(a \in res /\ b \in res)
                /\ Cardinality(cand) = 2 => PairRule(a, b, res)

\* C3 witness: a class with exactly two candidates of different confidences and an
\* IoU above iou_threshold, of which the result holds the more confident one only.
C3_Witness ==
    \E i \in 1..Len(filtered_single_classes) : \E k \in WrittenClasses(i) :
        LET cand == Range(Candidates(i, ClassRange(NClasses)[k]))
            res == Range(filtered_single_classes[i][k])
        IN  /\ Cardinality(cand) = 2
            /\ \E a \in cand : \E b \in cand :
                  /\ a[2] > b[2]
                  /\ IouAbove(a, b, layer.iou_threshold)
                  /\ a \in res
                  /\ b \notin res

\* C6: the Suppressor, run on its own result with the same iou_threshold and
\* max_nms_output_size, returns the same set of candidates.
C6_NmsIdempotent ==
    \A i \in 1..Len(filtered_single_classes) : \A k \in WrittenClasses(i) :
        LET first == Survivors(i, ClassRange(NClasses)[k])
            second == perform_nms(first, layer)
        IN  /\ Range(filtered_single_classes[i][k]) \ {ZeroRow} = Range(first)
            /\ Range(second) = Range(first)
            /\ Len(second) = Len(first)

\* C6 witness: a first run that suppressed a candidate and kept two.
C6_Witness ==
    \E i \in 1..Len(filtered_single_classes) : \E k \in WrittenClasses(i) :
        /\ Len(Survivors(i, ClassRange(NClasses)[k])) >= 2
        /\ Len(Survivors(i, ClassRange(NClasses)[k])) < Len(Candidates(i, ClassRange(NClasses)[k]))
        /\ Range(filtered_single_classes[i][k]) \ {ZeroRow} =
              Range(Survivors(i, ClassRange(NClasses)[k]))

\* The thresholds C7 compares: the configured ones and every confidence of the inputs
ProbeThresholds == ConfidenceThresholds \cup UNION {Range(conf) : conf \in ConfRows}

\* The thresholds compared for every class of every image of a finished call
ThresholdsCompared(i, index) ==
    LET rows == single_class_rows(decoded[i], index)
        pass == [t \in ProbeThresholds |-> Range(confident_rows(rows, t))]
    IN  /\ \A t1 \in ProbeThresholds : \A t2 \in ProbeThresholds :
              t1 <= t2 =>
                /\ pass[t2] \subseteq pass[t1]
                /\ Cardinality(pass[t2]) <= Cardinality(pass[t1])
        /\ \A t \in ProbeThresholds : \A j \in 1..Len(rows) :
              (rows[j] \in pass[t]) <=> (rows[j][2] > t)

\* C7: for thresholds t1 <= t2 the candidates of a class that pass t2 are among those
\* that pass t1, and a candidate passes exactly when its confidence is strictly
\* greater than the threshold.
C7_ThresholdMonotone ==
    /\ \A i \in 1..Len(filtered_single_classes) : \A k \in WrittenClasses(i) :
          LET rows == single_class_rows(decoded[i], ClassRange(NClasses)[k])
          IN  Range(filtered_single_classes[i][k]) \ {ZeroRow} \subseteq
                  {rows[j] : j \in {n \in 1..Len(rows) : rows[n][2] > layer.confidence_thresh}}
    /\ pc = "done" =>
          \A i \in 1..Len(decoded) : \A index \in 1..(NClasses - 1) :
              ThresholdsCompared(i, index)

\* C7 witness: a filtered class with a confidence equal to the threshold, which did
\* not pass, and a higher threshold that fewer candidates pass.
C7_Witness ==
    \E i \in 1..Len(filtered_single_classes) : \E k \in WrittenClasses(i) :
        LET rows == single_class_rows(decoded[i], ClassRange(NClasses)[k])
        IN  /\ \E j \in 1..Len(rows) :
                  /\ rows[j][2] = layer.confidence_thresh
                  /\ rows[j] \notin Range(filtered_single_classes[i][k])
            /\ \E t2 \in ProbeThresholds :
                  /\ t2 > layer.confidence_thresh
                  /\ Len(confident_rows(rows, t2)) < Len(confident_rows(rows, layer.confidence_thresh))
                  /\ Len(confident_rows(rows, t2)) > 0

\* The post-NMS detections of image i, over all classes
Detections(i) ==
    UNION {Range(filtered_single_classes[i][k]) : k \in 1..Len(filtered_single_classes[i])}
        \ {ZeroRow}

\* C8: with confidence_threshold >= 0 the output rows of an image are in
\* non-increasing confidence order: the min(top_k, D) most confident of its D
\* post-NMS detections, then zero sentinel rows only.
C8_TopKSelection ==
    layer.confidence_thresh >= 0 =>
        \A i \in WrittenImages :
            LET out == top_k_boxes[i]
                m == Min(layer.top_k, Cardinality(Detections(i)))
                kept == {out[k] : k \in 1..m}
            IN  /\ \A k \in 1..(Len(out) - 1) : out[k][2] >= out[k + 1][2]
                /\ kept \subseteq Detections(i)
                /\ Cardinality(kept) = m
                /\ \A k \in (m + 1)..Len(out) : out[k] = ZeroRow
                /\ \A d \in Detections(i) \ kept : \A e \in kept : d[2] <= e[2]

\* C8 witness: an image with more detections than top_k, of which a dropped one is
\* less confident than a kept one.
C8_Witness ==
    /\ layer.confidence_thresh >= 0
    /\ \E i \in WrittenImages :
          /\ Cardinality(Detections(i)) > layer.top_k
          /\ \E d \in Detections(i) \ Range(top_k_boxes[i]) :
                \E e \in Range(top_k_boxes[i]) : d[2] < e[2]

\* The unified path: pad to at least k rows, then the k most confident rows
UnifiedTopK(rows, k) ==
    LET padded == rows \o [n \in 1..Max(k - Len(rows), 0) |-> ZeroRow]
    IN  TfGather(padded, TfTopKIndices(Column(padded, 1), k))

\* C9: on the flat list of an image and on each of its prefixes the conditional of
\* line 216 gives what the unified path gives, and on a list of exactly top_k
\* rows top_k() and pad_and_top_k() give the same rows in the same order.
C9_TopKPathsAgree ==
    \A i \in 1..Len(filtered_single_classes) :
        WrittenClasses(i) = 1..Len(filtered_single_classes[i]) =>
            LET flat == Reshape(filtered_single_classes[i])
            IN  /\ \A n \in 0..Len(flat) :
                      LET list == SubSeq(flat, 1, n)
                      IN  /\ top_k_cond(list, layer) = UnifiedTopK(list, layer.top_k)
                          /\ n = layer.top_k =>
                                top_k(list, layer) = pad_and_top_k(list, layer)
                /\ i \in WrittenImages => top_k_boxes[i] = UnifiedTopK(flat, layer.top_k)

\* C9 witness: a flat list of exactly top_k rows, not in confidence order, whose
\* image has its result.
C9_Witness ==
    \E i \in WrittenImages :
        LET flat == Reshape(filtered_single_classes[i])
        IN  /\ Len(flat) = layer.top_k
            /\ \E k \in 1..(Len(flat) - 1) : flat[k][2] < flat[k + 1][2]
            /\ top_k_boxes[i] # flat

\* What call() returns for one image, computed in sequence from its input rows alone
SequentialImage(image, self) ==
    LET batch_item == [j \in 1..Len(image) |-> DecodeRow(image[j], self)]
        slots == [k \in 1..(NClasses - 1) |-> filter_single_class(batch_item, k, self)]
    IN  top_k_cond(ConcatFrom(slots, 1), self)

\* C10: whatever the order in which the class and image iterations complete, every
\* written class slot and image slot holds what the sequential computation on the
\* rows of that image gives, an image is aggregated only after all of its classes,
\* and the batch is returned, in batch order, only after all of its images.
C10_OrderIndependent ==
    /\ \A i \in 1..Len(filtered_single_classes) : \A k \in WrittenClasses(i) :
          filtered_single_classes[i][k] =
              filter_single_class([j \in 1..Len(y_pred[i]) |-> DecodeRow(y_pred[i][j], layer)],
                                  k, layer)
    /\ \A i \in WrittenImages :
          /\ WrittenClasses(i) = 1..(NClasses - 1)
          /\ top_k_boxes[i] = SequentialImage(y_pred[i], layer)
    /\ pc = "done" =>
          /\ WrittenImages = 1..Len(y_pred)
          /\ output_tensor = [i \in 1..Len(y_pred) |-> SequentialImage(y_pred[i], layer)]

\* C10 witness: the second image is complete while of the first image class 2 is
\* done and class 1 is not.
C10_Witness ==
    /\ pc = "running"
    /\ Len(y_pred) = 2
    /\ y_pred[1] # y_pred[2]
    /\ WrittenImages = {2}
    /\ WrittenClasses(1) = {2}
    /\ NonSentinelCount(top_k_boxes[2]) > 0

====
